---- MODULE Spec2Model ----
(***************************************************************************)
(* Model of the MongoDB slow-query log miner (src/src/main.rs).            *)
(*                                                                         *)
(* Representation.  A Rust String is a sequence of text units (each unit   *)
(* a TLA+ string standing for one or more characters that the program      *)
(* never splits): "db.orders" is <<"db", ".", "orders">>, the key "$gt" is *)
(* <<"$", "gt">>.  Concatenation, join, rfind('.') and starts_with('$')    *)
(* are then computed on the units as the code computes them on bytes.      *)
(* A CSV field is a sequence of lexemes: the braces, prose, whitespace and *)
(* the string / number / bool / null lexemes of JSON.                      *)
(* A serde_json::Value is a record [t, v] with t the variant.              *)
(***************************************************************************)
EXTENDS Integers, Sequences, FiniteSets, TLC

VARIABLES
    pc,                        \* position of main(): "start", "found", "collections", "done", "failed"
    input,                     \* the fields reader.records() yields, in order
    candidates,                \* every json_content handed to parse_query_pattern, in order
    pattern_counts,            \* the HashMap of find_query_patterns_in_braces when its loop ends
    patterns,                  \* Result<Vec<(QueryPattern, usize)>>: [ok, list]
    collection_analysis,       \* main's collection_analysis
    field_distributions,       \* main's field_distributions
    json_str,                  \* argument of one parse_query_pattern call
    parsed_pattern,            \* its Option<QueryPattern>
    filter_doc,                \* argument of one extract_field_values_from_object call
    field_values               \* its HashMap<String, String>

vars == <<pc, input, candidates, pattern_counts, patterns, collection_analysis,
          field_distributions, json_str, parsed_pattern, filter_doc, field_values>>

-----------------------------------------------------------------------------
(* Maps, options, strings *)

EmptyMap == <<>>

Put(m, k, val) == [y \in (DOMAIN m) \cup {k} |-> IF y = k THEN val ELSE m[y]]

\* HashMap::extend: entries of n override those of m
Extend(m, n) == [y \in (DOMAIN m) \cup (DOMAIN n) |-> IF y \in DOMAIN n THEN n[y] ELSE m[y]]

Range(s) == {s[i] : i \in DOMAIN s}

RECURSIVE Join(_, _)
\* [String].join(sep)
Join(strs, sep) ==
    IF strs = <<>> THEN <<>>
    ELSE IF Len(strs) = 1 THEN strs[1]
    ELSE strs[1] \o sep \o Join(Tail(strs), sep)

\* Byte order of the text units that occur in keys (str::cmp is bytewise).
ByteOrder == <<"$", ", ", ".", "_id", "a", "age", "attr", "b", "city", "command",
               "durationMillis", "filter", "find", "getMore", "gt", "listDatabases", "msg", "ns",
               "originatingCommand", "planSummary", "sort", "status">>

Rank(u) == IF u \in Range(ByteOrder)
           THEN CHOOSE i \in 1..Len(ByteOrder) : ByteOrder[i] = u
           ELSE Len(ByteOrder) + 1

RECURSIVE StrLess(_, _)
StrLess(s1, s2) ==
    IF s1 = <<>> THEN s2 # <<>>
    ELSE IF s2 = <<>> THEN FALSE
    ELSE IF Rank(Head(s1)) # Rank(Head(s2)) THEN Rank(Head(s1)) < Rank(Head(s2))
    ELSE StrLess(Tail(s1), Tail(s2))

RECURSIVE SortStrings(_)
\* the strings of a set in ascending order (Vec::sort on distinct strings)
SortStrings(S) ==
    IF S = {} THEN <<>>
    ELSE LET least == CHOOSE s \in S : \A r \in S \ {s} : StrLess(s, r)
         IN <<least>> \o SortStrings(S \ {least})

-----------------------------------------------------------------------------
(* serde_json::Value *)

Null == [t |-> "null", v |-> <<>>]
Str(s) == [t |-> "str", v |-> s]
Num(s) == [t |-> "num", v |-> s]
Bool(s) == [t |-> "bool", v |-> s]
Arr(a) == [t |-> "arr", v |-> a]
Obj(m) == [t |-> "obj", v |-> m]

NoValue == [some |-> FALSE, val |-> Null]
SomeValue(x) == [some |-> TRUE, val |-> x]

\* Value::get(key): None unless an object that has the key
Get(val, key) ==
    IF val.t = "obj" /\ key \in DOMAIN val.v THEN SomeValue(val.v[key]) ELSE NoValue

(* Lexemes of a field *)
LB == [t |-> "lb", v |-> <<>>]
RB == [t |-> "rb", v |-> <<>>]
WS == [t |-> "ws", v |-> <<>>]
Txt == [t |-> "txt", v |-> <<>>]

ParseFail == [ok |-> FALSE, val |-> Null, next |-> 0]

RECURSIVE ParseValue(_, _), ParseMembers(_, _, _)
\* one JSON value starting at lexeme i
ParseValue(s, i) ==
    IF i > Len(s) THEN ParseFail
    ELSE IF s[i].t = "ws" THEN ParseValue(s, i + 1)
    ELSE IF s[i].t \in {"str", "num", "bool", "null"}
         THEN [ok |-> TRUE, val |-> [t |-> s[i].t, v |-> s[i].v], next |-> i + 1]
    ELSE IF s[i].t = "lb" THEN ParseMembers(s, i + 1, EmptyMap)
    ELSE ParseFail

\* the members of an object up to its closing brace; a repeated key keeps the last value
ParseMembers(s, i, m) ==
    IF i > Len(s) THEN ParseFail
    ELSE IF s[i].t = "ws" THEN ParseMembers(s, i + 1, m)
    ELSE IF s[i].t = "rb" THEN [ok |-> TRUE, val |-> Obj(m), next |-> i + 1]
    ELSE IF s[i].t = "str"
         THEN LET r == ParseValue(s, i + 1)
              IN IF r.ok THEN ParseMembers(s, r.next, Put(m, s[i].v, r.val)) ELSE ParseFail
    ELSE ParseFail

\* serde_json::from_str(json_str).ok()
from_str(s) ==
    LET r == ParseValue(s, 1)
    IN IF r.ok /\ (\A j \in r.next..Len(s) : s[j].t = "ws") THEN SomeValue(r.val) ELSE NoValue

-----------------------------------------------------------------------------
(* Field Projector *)

starts_with_dollar(key) == key # <<>> /\ key[1] = "$"

IsUserKey(key) == ~starts_with_dollar(key) /\ key # <<"_id">>

extract_fields_from_object(obj) ==
    IF obj.t = "obj" THEN SortStrings({key \in DOMAIN obj.v : IsUserKey(key)}) ELSE <<>>

MaxStrLen == 50
KeptLen == 47

\* the sampled form of a string value
SampleString(s) == IF Len(s) <= MaxStrLen THEN s ELSE SubSeq(s, 1, KeptLen) \o <<"...">>

RECURSIVE ToJson(_), ToJsonSeq(_)
\* Value::to_string()
ToJson(val) ==
    CASE val.t = "null" -> <<"null">>
      [] val.t = "str" -> <<"\"">> \o val.v \o <<"\"">>
      [] val.t \in {"num", "bool"} -> val.v
      [] val.t = "arr" -> <<"[">> \o Join(ToJsonSeq(val.v), <<",">>) \o <<"]">>
      [] val.t = "obj" ->
            LET keys == SortStrings(DOMAIN val.v)
                member(i) == <<"\"">> \o keys[i] \o <<"\"", ":">> \o ToJson(val.v[keys[i]])
            IN <<"{">> \o Join([i \in 1..Len(keys) |-> member(i)], <<",">>) \o <<"}">>

ToJsonSeq(a) == [i \in 1..Len(a) |-> ToJson(a[i])]

MaxArrayShown == 3

\* the sampled form of an array value
SampleArray(arr) ==
    IF Len(arr) <= MaxArrayShown
    THEN <<"[">> \o Join([i \in 1..Len(arr) |->
                            IF arr[i].t = "str" THEN arr[i].v ELSE ToJson(arr[i])], <<",">>) \o <<"]">>
    ELSE <<"[", ToString(Len(arr)), " items", "]">>

RECURSIVE extract_field_values_from_object_with_depth(_, _, _, _), ValuesOfKeys(_, _, _, _, _, _)
extract_field_values_from_object_with_depth(obj, prefix, current_depth, max_depth) ==
    IF current_depth >= max_depth THEN EmptyMap
    ELSE IF obj.t = "obj"
         THEN ValuesOfKeys(obj.v, SortStrings(DOMAIN obj.v), prefix, current_depth, max_depth, EmptyMap)
         ELSE EmptyMap

\* the body of `for (key, value) in map.iter()`, over the keys still to visit
ValuesOfKeys(map, keys, prefix, current_depth, max_depth, acc) ==
    IF keys = <<>> THEN acc
    ELSE LET key == Head(keys)
             value == map[key]
             field_name == IF prefix = <<>> THEN key ELSE prefix \o <<".">> \o key
             acc1 == IF ~IsUserKey(key) THEN acc
                     ELSE CASE value.t = "str" -> Put(acc, field_name, SampleString(value.v))
                            [] value.t \in {"num", "bool"} -> Put(acc, field_name, value.v)
                            [] value.t = "arr" -> Put(acc, field_name, SampleArray(value.v))
                            [] value.t = "obj" ->
                                  Extend(acc, extract_field_values_from_object_with_depth(
                                                  value, field_name, current_depth + 1, max_depth))
                            [] OTHER -> acc
         IN ValuesOfKeys(map, Tail(keys), prefix, current_depth, max_depth, acc1)

MaxDepth == 3

\* extract_field_values_from_object as it would be with the depth test off by one
extract_field_values_too_deep(obj, prefix) ==
    extract_field_values_from_object_with_depth(obj, prefix, 0, MaxDepth + 1)

extract_field_values_from_object(obj, prefix) ==
    extract_field_values_from_object_with_depth(obj, prefix, 0, MaxDepth)

-----------------------------------------------------------------------------
(* QueryPattern and its Display form *)

NoDuration == [some |-> FALSE, val |-> <<>>]
SomeDuration(d) == [some |-> TRUE, val |-> d]

QueryPattern(collection, operation, filters, sorts, plan_summary, duration_ms, values) ==
    [collection |-> collection, operation |-> operation, filter_fields |-> filters,
     sort_fields |-> sorts, index_used |-> <<"unknown">>, plan_summary |-> plan_summary,
     duration_ms |-> duration_ms, field_values |-> values]

NoPattern == [some |-> FALSE,
              val |-> QueryPattern(<<>>, <<>>, <<>>, <<>>, <<>>, NoDuration, EmptyMap)]
SomePattern(p) == [some |-> TRUE, val |-> p]

\* impl Display for QueryPattern
Display(p) ==
    LET parts == <<<<"Collection: ">> \o p.collection, <<"Operation: ">> \o p.operation>>
                 \o (IF p.filter_fields # <<>>
                     THEN <<<<"Filter fields: [">> \o Join(p.filter_fields, <<", ">>) \o <<"]">>>>
                     ELSE <<>>)
                 \o (IF p.sort_fields # <<>>
                     THEN <<<<"Sort fields: [">> \o Join(p.sort_fields, <<", ">>) \o <<"]">>>>
                     ELSE <<>>)
                 \o (IF p.plan_summary # <<>> /\ p.plan_summary # <<"unknown">>
                     THEN <<<<"Plan: ">> \o p.plan_summary>>
                     ELSE <<>>)
                 \o (IF p.index_used # <<>> /\ p.index_used # <<"unknown">>
                     THEN <<<<"Index: ">> \o p.index_used>>
                     ELSE <<>>)
    IN Join(parts, <<" | ">>)

-----------------------------------------------------------------------------
(* Pattern Normalizer *)

\* str::rfind('.'): position of the last '.', 0 if there is none
rfind_dot(s) == IF "." \in Range(s) THEN CHOOSE i \in DOMAIN s : s[i] = "." /\ \A j \in DOMAIN s : j > i => s[j] # "."
                ELSE 0

\* Value::as_i64 on the numerals of the model: an integer numeral has no '.'
as_i64(val) == IF val.t = "num" /\ "." \notin Range(val.v) THEN SomeDuration(val.v) ELSE NoDuration

OperationOf(command_obj) ==
    IF Get(command_obj, <<"find">>).some THEN <<"find">>
    ELSE IF Get(command_obj, <<"getMore">>).some THEN <<"getMore">>
    ELSE IF Get(command_obj, <<"listDatabases">>).some THEN <<"listDatabases">>
    ELSE <<"other">>

parse_query_pattern(json) ==
    LET parsed == from_str(json) IN
    IF ~parsed.some THEN NoPattern ELSE
    LET attr == Get(parsed.val, <<"attr">>) IN
    IF ~attr.some THEN NoPattern ELSE
    LET ns == Get(attr.val, <<"ns">>) IN
    IF ~ns.some THEN NoPattern ELSE
    LET plan == Get(attr.val, <<"planSummary">>) IN
    IF ~plan.some THEN NoPattern ELSE
    LET duration == Get(attr.val, <<"durationMillis">>) IN
    IF ~duration.some THEN NoPattern ELSE
    LET collection == IF ns.val.t = "str" /\ rfind_dot(ns.val.v) # 0
                      THEN SubSeq(ns.val.v, rfind_dot(ns.val.v) + 1, Len(ns.val.v))
                      ELSE <<>>
        plan_summary == IF plan.val.t = "str" THEN plan.val.v ELSE <<"unknown">>
        duration_ms == as_i64(duration.val)
        command == Get(attr.val, <<"command">>)
        operation == IF command.some THEN OperationOf(command.val) ELSE <<>>
        filter1 == IF command.some THEN Get(command.val, <<"filter">>) ELSE NoValue
        sort1 == IF command.some THEN Get(command.val, <<"sort">>) ELSE NoValue
        filter_fields1 == IF filter1.some THEN extract_fields_from_object(filter1.val) ELSE <<>>
        field_values1 == IF filter1.some
                         THEN Extend(EmptyMap, extract_field_values_from_object(filter1.val, <<>>))
                         ELSE EmptyMap
        sort_fields1 == IF sort1.some THEN extract_fields_from_object(sort1.val) ELSE <<>>
        orig == IF operation = <<"getMore">> THEN Get(attr.val, <<"originatingCommand">>) ELSE NoValue
        filter2 == IF orig.some THEN Get(orig.val, <<"filter">>) ELSE NoValue
        sort2 == IF orig.some THEN Get(orig.val, <<"sort">>) ELSE NoValue
        filter_fields == IF filter2.some THEN extract_fields_from_object(filter2.val) ELSE filter_fields1
        values == IF filter2.some
                  THEN Extend(field_values1, extract_field_values_from_object(filter2.val, <<>>))
                  ELSE field_values1
        sort_fields == IF sort2.some THEN extract_fields_from_object(sort2.val) ELSE sort_fields1
    IN IF collection = <<>> /\ operation = <<>> THEN NoPattern
       ELSE SomePattern(QueryPattern(collection, operation, filter_fields, sort_fields,
                                     plan_summary, duration_ms, values))

-----------------------------------------------------------------------------
(* Fragment Extractor and Pattern Aggregator: find_query_patterns_in_braces *)

RECURSIVE TrimStart(_), TrimEnd(_)
TrimStart(f) == IF f # <<>> /\ Head(f).t = "ws" THEN TrimStart(Tail(f)) ELSE f
TrimEnd(f) == IF f # <<>> /\ f[Len(f)].t = "ws" THEN TrimEnd(SubSeq(f, 1, Len(f) - 1)) ELSE f

\* str::trim
Trim(f) == TrimEnd(TrimStart(f))

NoPos == 0

\* Fold as it would be if a repeated identity replaced the stored pattern
FoldLastSeen(counts, pattern) ==
    LET pattern_key == Display(pattern)
    IN Put(counts, pattern_key,
           [pattern |-> pattern,
            count |-> IF pattern_key \in DOMAIN counts THEN counts[pattern_key].count + 1 ELSE 1])

\* the match on pattern_counts.get_mut(&pattern_key)
Fold(counts, pattern) ==
    LET pattern_key == Display(pattern)
    IN IF pattern_key \in DOMAIN counts
       THEN Put(counts, pattern_key, [pattern |-> counts[pattern_key].pattern,
                                      count |-> counts[pattern_key].count + 1])
       ELSE Put(counts, pattern_key, [pattern |-> pattern, count |-> 1])

\* the body of `if let Some(start) = start_pos`: parse the candidate and fold it
Emit(st, json_content) ==
    LET parsed == parse_query_pattern(json_content)
    IN [brace_depth |-> st.brace_depth,
        start_pos |-> st.start_pos,
        candidates |-> Append(st.candidates, json_content),
        pattern_counts |-> IF parsed.some THEN Fold(st.pattern_counts, parsed.val)
                           ELSE st.pattern_counts]

\* the scan state with a new depth and start position
WithBraces(st, depth, start) ==
    [brace_depth |-> depth, start_pos |-> start,
     candidates |-> st.candidates, pattern_counts |-> st.pattern_counts]

\* ScanStep as it would be if every '{' restarted the candidate
ScanStepNested(field, i, st) ==
    IF field[i].t = "lb"
    THEN WithBraces(st, st.brace_depth + 1, i)
    ELSE IF field[i].t = "rb"
         THEN LET depth == st.brace_depth - 1
              IN IF depth = 0
                 THEN IF st.start_pos # NoPos
                      THEN WithBraces(Emit(st, SubSeq(field, st.start_pos, i)), depth, NoPos)
                      ELSE WithBraces(st, depth, NoPos)
                 ELSE WithBraces(st, depth, st.start_pos)
    ELSE st

\* one iteration of `for (i, ch) in field_trimmed.char_indices()`
ScanStep(field, i, st) ==
    IF field[i].t = "lb"
    THEN WithBraces(st, st.brace_depth + 1, IF st.brace_depth = 0 THEN i ELSE st.start_pos)
    ELSE IF field[i].t = "rb"
         THEN LET depth == st.brace_depth - 1
              IN IF depth = 0
                 THEN IF st.start_pos # NoPos
                      THEN WithBraces(Emit(st, SubSeq(field, st.start_pos, i)), depth, NoPos)
                      ELSE WithBraces(st, depth, NoPos)
                 ELSE WithBraces(st, depth, st.start_pos)
    ELSE st

RECURSIVE ScanChars(_, _, _, _)
\* the loop over the characters lo..hi of one field, in order.  The range is
\* halved and the first half is evaluated before the second is entered (the
\* test on its record always holds), which keeps the evaluation shallow.
ScanChars(field, lo, hi, st) ==
    IF lo > hi THEN st
    ELSE IF lo = hi THEN ScanStep(field, lo, st)
    ELSE LET mid == (lo + hi) \div 2
             first == ScanChars(field, lo, mid, st)
         IN IF DOMAIN first = DOMAIN st THEN ScanChars(field, mid + 1, hi, first) ELSE st

RECURSIVE ScanFields(_, _, _)
\* `for field in record.iter()` over all records: brace_depth and start_pos restart per field
ScanFields(fields, k, acc) ==
    IF k > Len(fields) THEN acc
    ELSE LET st == ScanChars(Trim(fields[k]), 1, Len(Trim(fields[k])),
                             [brace_depth |-> 0, start_pos |-> NoPos,
                              candidates |-> acc.candidates,
                              pattern_counts |-> acc.pattern_counts])
         IN ScanFields(fields, k + 1,
                       [candidates |-> st.candidates, pattern_counts |-> st.pattern_counts])

ScanAll(fields) == ScanFields(fields, 1, [candidates |-> <<>>, pattern_counts |-> EmptyMap])

\* the orders in which HashMap::into_values may yield the entries
IterationOrders(counts) ==
    LET keys == DOMAIN counts
        n == Cardinality(keys)
    IN {[i \in 1..n |-> counts[o[i]]] : o \in {q \in [1..n -> keys] : \A i, j \in 1..n : q[i] = q[j] => i = j}}

RECURSIVE InsertSorted(_, _)
\* place e after every element whose count is not smaller: keeps equal counts in input order
InsertSorted(sorted, e) ==
    IF sorted = <<>> THEN <<e>>
    ELSE IF Head(sorted).count >= e.count THEN <<Head(sorted)>> \o InsertSorted(Tail(sorted), e)
    ELSE <<e>> \o sorted

RECURSIVE SortByCountDesc(_)
\* sorted_patterns.sort_by(|a, b| b.1.cmp(&a.1)), a stable sort
SortByCountDesc(list) ==
    IF list = <<>> THEN <<>>
    ELSE InsertSorted(SortByCountDesc(SubSeq(list, 1, Len(list) - 1)), list[Len(list)])

Err == [ok |-> FALSE, list |-> <<>>]
Ok(list) == [ok |-> TRUE, list |-> list]

\* Finish as it would be without the is_empty check
FinishNoCheck(counts) == {Ok(SortByCountDesc(vals)) : vals \in IterationOrders(counts)}

\* the possible return values once the loop has ended with the map counts
Finish(counts) ==
    IF counts = EmptyMap THEN {Err}
    ELSE {Ok(SortByCountDesc(vals)) : vals \in IterationOrders(counts)}

\* the possible return values of find_query_patterns_in_braces on the fields
find_query_patterns_in_braces(fields) == Finish(ScanAll(fields).pattern_counts)

-----------------------------------------------------------------------------
(* Collection/Field Analyzer and Value Distribution Analyzer *)

\* *map.entry(key).or_insert(0) += count
AddCount(m, key, count) == Put(m, key, (IF key \in DOMAIN m THEN m[key] ELSE 0) + count)

RECURSIVE AddTagged(_, _, _, _)
\* `for field in fields { *stats.entry(format!("<tag>{}", field)).or_insert(0) += count }`
AddTagged(stats, tag, fields, count) ==
    IF fields = <<>> THEN stats
    ELSE AddTagged(AddCount(stats, <<tag>> \o Head(fields), count), tag, Tail(fields), count)

\* CollectionStep as it would be if it counted patterns instead of their occurrences
CollectionStepByOne(acc, e) ==
    LET pattern == e.pattern
        stats0 == IF pattern.collection \in DOMAIN acc THEN acc[pattern.collection] ELSE EmptyMap
        stats1 == AddTagged(stats0, "filter:", pattern.filter_fields, 1)
        stats2 == AddTagged(stats1, "sort:", pattern.sort_fields, 1)
        stats3 == AddCount(stats2, <<"operation:">> \o pattern.operation, 1)
        stats4 == IF pattern.plan_summary # <<>> /\ pattern.plan_summary # <<"unknown">>
                  THEN AddCount(stats3, <<"plan:">> \o pattern.plan_summary, 1)
                  ELSE stats3
    IN Put(acc, pattern.collection, stats4)

\* the loop body of analyze_collection_field_patterns for one (pattern, count)
CollectionStep(acc, e) ==
    LET pattern == e.pattern
        stats0 == IF pattern.collection \in DOMAIN acc THEN acc[pattern.collection] ELSE EmptyMap
        stats1 == AddTagged(stats0, "filter:", pattern.filter_fields, e.count)
        stats2 == AddTagged(stats1, "sort:", pattern.sort_fields, e.count)
        stats3 == AddCount(stats2, <<"operation:">> \o pattern.operation, e.count)
        stats4 == IF pattern.plan_summary # <<>> /\ pattern.plan_summary # <<"unknown">>
                  THEN AddCount(stats3, <<"plan:">> \o pattern.plan_summary, e.count)
                  ELSE stats3
    IN Put(acc, pattern.collection, stats4)

RECURSIVE FoldList(_, _, _)
FoldList(Step(_, _), acc, list) ==
    IF list = <<>> THEN acc ELSE FoldList(Step, Step(acc, Head(list)), Tail(list))

analyze_collection_field_patterns(list) == FoldList(CollectionStep, EmptyMap, list)

HighFrequency == 100

RECURSIVE AddValues(_, _, _, _)
\* `for (field_name, field_value) in &pattern.field_values`, over the paths still to visit
AddValues(acc, pattern, paths, count) ==
    IF paths = {} THEN acc
    ELSE LET field_name == CHOOSE q \in paths : TRUE
             key == pattern.collection \o <<":">> \o field_name
             field_stats == IF key \in DOMAIN acc THEN acc[key] ELSE EmptyMap
         IN AddValues(Put(acc, key, AddCount(field_stats, pattern.field_values[field_name], count)),
                      pattern, paths \ {field_name}, count)

\* the loop body of analyze_field_value_distributions for one (pattern, count)
DistributionStep(acc, e) ==
    IF e.pattern.plan_summary = <<"COLLSCAN">> \/ e.count > HighFrequency
    THEN AddValues(acc, e.pattern, DOMAIN e.pattern.field_values, e.count)
    ELSE acc

analyze_field_value_distributions(list) == FoldList(DistributionStep, EmptyMap, list)

-----------------------------------------------------------------------------
(* Inputs *)

\* the lexemes of the JSON text of a value (object members in some fixed order)
RECURSIVE Render(_), RenderMembers(_, _)
Render(val) ==
    IF val.t = "obj" THEN <<LB>> \o RenderMembers(val.v, SortStrings(DOMAIN val.v)) \o <<RB>>
    ELSE <<[t |-> val.t, v |-> val.v]>>

RenderMembers(m, keys) ==
    IF keys = <<>> THEN <<>>
    ELSE <<[t |-> "str", v |-> Head(keys)]>> \o Render(m[Head(keys)]) \o RenderMembers(m, Tail(keys))

\* a slow-query log line of mongod
LogRecord(ns, plan, duration, command) ==
    Obj(<<"attr">> :> Obj(<<"ns">> :> ns @@ <<"planSummary">> :> plan
                          @@ <<"durationMillis">> :> duration @@ <<"command">> :> command))

FindCommand(coll, filter) == Obj(<<"find">> :> Str(coll) @@ <<"filter">> :> filter)

RecOpen == LogRecord(Str(<<"db", ".", "orders">>), Str(<<"COLLSCAN">>), Num(<<"120">>),
                     FindCommand(<<"orders">>, Obj(<<"status">> :> Str(<<"open">>))))

RecClosed == LogRecord(Str(<<"db", ".", "orders">>), Str(<<"COLLSCAN">>), Num(<<"7">>),
                       FindCommand(<<"orders">>, Obj(<<"status">> :> Str(<<"closed">>))))

RecUsers == LogRecord(Str(<<"db", ".", "users">>), Str(<<"IXSCAN">>), Num(<<"7">>),
                      Obj(<<"find">> :> Str(<<"users">>)
                          @@ <<"filter">> :> Obj(<<"age">> :> Num(<<"30">>))
                          @@ <<"sort">> :> Obj(<<"age">> :> Num(<<"1">>))))

OpenText == Render(RecOpen)
ClosedText == Render(RecClosed)
UsersText == Render(RecUsers)
NoAttrText == Render(Obj(<<"msg">> :> Str(<<"x">>)))

\* what one piece of the input contributes to the field being built: a log record,
\* "junk" (a malformed group, then a well-formed document that is no log record),
\* "stray" (a closing brace); "break" ends the field
PieceText(piece) ==
    CASE piece = "open" -> OpenText
      [] piece = "closed" -> ClosedText
      [] piece = "users" -> UsersText
      [] piece = "junk" -> <<LB, Txt, RB, Txt>> \o NoAttrText
      [] piece = "stray" -> <<RB>>

Pieces == {"open", "closed", "users", "junk", "stray", "break"}

MaxPieces == 5

RECURSIVE FieldsOf(_, _, _)
\* the fields a sequence of pieces spells out
FieldsOf(ps, done, cur) ==
    IF ps = <<>> THEN Append(done, cur)
    ELSE IF Head(ps) = "break" THEN FieldsOf(Tail(ps), Append(done, cur), <<>>)
    ELSE FieldsOf(Tail(ps), done, cur \o <<Txt>> \o PieceText(Head(ps)))

SeqsUpTo(S, n) == UNION {[1..k -> S] : k \in 0..n}

Inputs == {FieldsOf(ps, <<>>, <<>>) : ps \in SeqsUpTo(Pieces, MaxPieces)}

MaxLen == 7

\* single fields of raw brace text
BraceFields == SeqsUpTo({LB, RB, Txt, WS}, MaxLen)

-----------------------------------------------------------------------------
(* main() *)

NoArg == <<>>

Idle == /\ json_str = NoArg
        /\ parsed_pattern = NoPattern
        /\ filter_doc = Null
        /\ field_values = EmptyMap

Fresh == /\ pc = "start"
         /\ candidates = <<>>
         /\ pattern_counts = EmptyMap
         /\ patterns = Err
         /\ collection_analysis = EmptyMap
         /\ field_distributions = EmptyMap

Init == /\ input \in Inputs
        /\ Fresh
        /\ Idle

\* find_query_patterns_in_braces(csv_file), the whole call
FindQueryPatterns ==
    /\ pc = "start"
    /\ \E scanned \in {ScanAll(input)} :
          /\ candidates' = scanned.candidates
          /\ pattern_counts' = scanned.pattern_counts
          /\ \E ret \in Finish(scanned.pattern_counts) :
                /\ patterns' = ret
                /\ pc' = IF ret.ok THEN "found" ELSE "failed"
    /\ UNCHANGED <<input, collection_analysis, field_distributions,
                   json_str, parsed_pattern, filter_doc, field_values>>

AnalyzeCollections ==
    /\ pc = "found"
    /\ collection_analysis' = analyze_collection_field_patterns(patterns.list)
    /\ pc' = "collections"
    /\ UNCHANGED <<input, candidates, pattern_counts, patterns, field_distributions,
                   json_str, parsed_pattern, filter_doc, field_values>>

AnalyzeDistributions ==
    /\ pc = "collections"
    /\ field_distributions' = analyze_field_value_distributions(patterns.list)
    /\ pc' = "done"
    /\ UNCHANGED <<input, candidates, pattern_counts, patterns, collection_analysis,
                   json_str, parsed_pattern, filter_doc, field_values>>

Next == FindQueryPatterns \/ AnalyzeCollections \/ AnalyzeDistributions

Spec == Init /\ [][Next]_vars

(* One field of raw brace text through the extractor *)
InitScan == /\ \E f \in BraceFields : input = <<f>>
            /\ Fresh
            /\ Idle

NextScan == FindQueryPatterns

SpecScan == InitScan /\ [][NextScan]_vars

(* One JSON text through the normalizer *)

Absent == NoValue
Member(key, choice) == IF choice.some THEN key :> choice.val ELSE EmptyMap

NsChoices == {Absent, SomeValue(Str(<<"db", ".", "orders">>)), SomeValue(Str(<<"orders">>)),
              SomeValue(Num(<<"1">>))}

PlanChoices == {Absent, SomeValue(Str(<<"COLLSCAN">>)), SomeValue(Str(<<>>)),
                SomeValue(Num(<<"1">>))}

DurationChoices == {Absent, SomeValue(Num(<<"120">>)), SomeValue(Num(<<"1", ".", "5">>))}

CommandChoices ==
    {Absent,
     SomeValue(Obj(EmptyMap)),
     SomeValue(Obj(<<"find">> :> Str(<<"orders">>))),
     SomeValue(FindCommand(<<"orders">>, Obj(<<"status">> :> Str(<<"open">>)))),
     SomeValue(Obj(<<"getMore">> :> Num(<<"1">>))),
     SomeValue(Obj(<<"getMore">> :> Num(<<"1">>)
                   @@ <<"filter">> :> Obj(<<"b">> :> Str(<<"x">>))
                   @@ <<"sort">> :> Obj(<<"b">> :> Num(<<"1">>))))}

OriginatingChoices ==
    {Absent,
     SomeValue(Obj(<<"filter">> :> Obj(<<"a">> :> Str(<<"y">>)))),
     SomeValue(Obj(<<"filter">> :> Obj(<<"a">> :> Str(<<"y">>))
                   @@ <<"sort">> :> Obj(<<"a">> :> Num(<<"1">>)))),
     SomeValue(Obj(<<"sort">> :> Obj(<<"a">> :> Num(<<"1">>))))}

AttrDocs ==
    {Obj(<<"attr">> :> Obj(Member(<<"ns">>, ns) @@ Member(<<"planSummary">>, plan)
                           @@ Member(<<"durationMillis">>, duration)
                           @@ Member(<<"command">>, command)
                           @@ Member(<<"originatingCommand">>, orig))) :
        ns \in NsChoices, plan \in PlanChoices, duration \in DurationChoices,
        command \in CommandChoices, orig \in OriginatingChoices}

JsonTexts ==
    {Render(doc) : doc \in AttrDocs}
    \cup {Render(Obj(<<"msg">> :> Str(<<"x">>))), Render(Obj(<<"attr">> :> Str(<<"x">>))),
          <<LB, Txt, RB>>, <<LB, [t |-> "str", v |-> <<"attr">>], RB>>}

InitParse == /\ json_str \in JsonTexts
             /\ parsed_pattern = NoPattern
             /\ filter_doc = Null
             /\ field_values = EmptyMap
             /\ input = <<>>
             /\ Fresh

\* parse_query_pattern(json_content), one call
ParseQueryPattern ==
    /\ pc = "start"
    /\ parsed_pattern' = parse_query_pattern(json_str)
    /\ pc' = "done"
    /\ UNCHANGED <<input, candidates, pattern_counts, patterns, collection_analysis,
                   field_distributions, json_str, filter_doc, field_values>>

NextParse == ParseQueryPattern

SpecParse == InitParse /\ [][NextParse]_vars

(* One filter document through the value sampler *)

Scalars == {Str(<<"x">>), Num(<<"1">>), Arr(<<Num(<<"1">>), Str(<<"x">>)>>)}

DocKeys == {<<"a">>, <<"$", "gt">>, <<"_id">>}

NestDepth == 5

RECURSIVE DocsOfDepth(_)
\* documents that nest objects at most n levels deep
DocsOfDepth(n) ==
    IF n = 0 THEN Scalars
    ELSE LET sub == DocsOfDepth(n - 1)
         IN Scalars
            \cup {Obj(k :> d) : k \in DocKeys, d \in sub}
            \cup {Obj(<<"a">> :> d @@ <<"b">> :> Str(<<"x">>)) : d \in sub}

InitValues == /\ filter_doc \in DocsOfDepth(NestDepth)
              /\ field_values = EmptyMap
              /\ json_str = NoArg
              /\ parsed_pattern = NoPattern
              /\ input = <<>>
              /\ Fresh

\* extract_field_values_from_object(filter_obj, ""), one call
ExtractFieldValues ==
    /\ pc = "start"
    /\ field_values' = extract_field_values_from_object(filter_doc, <<>>)
    /\ pc' = "done"
    /\ UNCHANGED <<input, candidates, pattern_counts, patterns, collection_analysis,
                   field_distributions, json_str, parsed_pattern, filter_doc>>

NextValues == ExtractFieldValues

SpecValues == InitValues /\ [][NextValues]_vars

(* Any aggregated list through the analyzers *)

AnalyzerPatterns ==
    {QueryPattern(c, op, f, srt, plan, NoDuration, [q \in Range(f) |-> <<"v">>]) :
        c \in {<<"orders">>, <<"users">>}, op \in {<<"find">>, <<"getMore">>},
        f \in {<<<<"status">>>>, <<<<"age">>, <<"status">>>>},
        srt \in {<<>>, <<<<"age">>>>},
        plan \in {<<"COLLSCAN">>, <<"unknown">>}}

MaxEntries == 2
MaxCount == 2

\* lists find_query_patterns_in_braces can return: one entry per identity, counts not increasing
AnalyzerLists ==
    {l \in SeqsUpTo([pattern : AnalyzerPatterns, count : 1..MaxCount], MaxEntries) :
        /\ l # <<>>
        /\ \A i, j \in 1..Len(l) : i < j =>
              /\ l[i].count >= l[j].count
              /\ Display(l[i].pattern) # Display(l[j].pattern)}

InitAnalyze == /\ \E l \in AnalyzerLists :
                    /\ patterns = Ok(l)
                    /\ pattern_counts = [k \in {Display(l[i].pattern) : i \in 1..Len(l)} |->
                                            CHOOSE e \in Range(l) : Display(e.pattern) = k]
               /\ pc = "found"
               /\ input = <<>>
               /\ candidates = <<>>
               /\ collection_analysis = EmptyMap
               /\ field_distributions = EmptyMap
               /\ Idle

NextAnalyze == AnalyzeCollections \/ AnalyzeDistributions

SpecAnalyze == InitAnalyze /\ [][NextAnalyze]_vars

(* Records whose shapes differ only slightly, one per field, through the aggregator *)

\* a find on db.orders with the given planSummary and filter document
ShapeRecord(plan, filter) ==
    LogRecord(Str(<<"db", ".", "orders">>), Str(plan), Num(<<"7">>),
              FindCommand(<<"orders">>, filter))

\* planSummary values: the literal "unknown", the empty string, a real plan
ShapePlans == {<<"unknown">>, <<>>, <<"COLLSCAN">>}

\* filter documents: the fields a and b, and the one field named "a, b" with two values
ShapeFilters == {Obj(<<"a">> :> Num(<<"1">>) @@ <<"b">> :> Num(<<"1">>)),
                 Obj(<<"a", ", ", "b">> :> Num(<<"1">>)),
                 Obj(<<"a", ", ", "b">> :> Num(<<"2">>))}

ShapeTexts == {Render(ShapeRecord(plan, filter)) : plan \in ShapePlans, filter \in ShapeFilters}

MaxRecords == 3

ShapeInputs == SeqsUpTo(ShapeTexts, MaxRecords)

InitIdentity == /\ input \in ShapeInputs
                /\ Fresh
                /\ Idle

NextIdentity == FindQueryPatterns

SpecIdentity == InitIdentity /\ [][NextIdentity]_vars

-----------------------------------------------------------------------------
(* Properties *)

\* the patterns of the candidates the normalizer recognized, in scan order
Recognized ==
    LET hits == SelectSeq(candidates, LAMBDA c : parse_query_pattern(c).some)
    IN [i \in 1..Len(hits) |-> parse_query_pattern(hits[i]).val]

SameShape(p, q) ==
    /\ p.collection = q.collection
    /\ p.operation = q.operation
    /\ p.filter_fields = q.filter_fields
    /\ p.sort_fields = q.sort_fields
    /\ p.plan_summary = q.plan_summary

\* position in Recognized of the first record of p's shape
FirstOfShape(R, p) == CHOOSE i \in 1..Len(R) : SameShape(R[i], p) /\ \A j \in 1..(i - 1) : ~SameShape(R[j], p)

\* C1: records of one shape (same collection, operation, filterFields, sortFields,
\* planSummary) end up in exactly one entry of the result; its count is the number
\* of such records and its pattern (fieldValues and durationMs included) is that of
\* the first of them.
C1_FirstSeenWins ==
    (pc # "start" /\ patterns.ok) =>
        LET R == Recognized
        IN \A i \in 1..Len(R) :
              LET entries == {k \in 1..Len(patterns.list) : SameShape(patterns.list[k].pattern, R[i])}
              IN /\ Cardinality(entries) = 1
                 /\ \A k \in entries :
                       /\ patterns.list[k].count = Cardinality({j \in 1..Len(R) : SameShape(R[j], R[i])})
                       /\ patterns.list[k].pattern = R[FirstOfShape(R, R[i])]

\* C1, on the records the claim names: whenever two recognized records have the same
\* shape but different filter values, the result has exactly one entry of that shape,
\* its count is the number of records of that shape, and its pattern is that of the
\* first of them.
C1_ValuedPairsFolded ==
    (pc # "start" /\ patterns.ok) =>
        LET R == Recognized
        IN \A i \in 1..Len(R) :
              (\E j \in 1..Len(R) : /\ j # i
                                    /\ SameShape(R[i], R[j])
                                    /\ R[i].field_values # R[j].field_values) =>
                  LET entries == {k \in 1..Len(patterns.list) : SameShape(patterns.list[k].pattern, R[i])}
                  IN /\ Cardinality(entries) = 1
                     /\ \A k \in entries :
                           /\ patterns.list[k].count = Cardinality({j \in 1..Len(R) : SameShape(R[j], R[i])})
                           /\ patterns.list[k].pattern = R[FirstOfShape(R, R[i])]

\* two records of one shape with different filter values were folded into an entry of count 2
C1_Witness ==
    /\ pc = "found"
    /\ LET R == Recognized
       IN \E i, j \in 1..Len(R) :
             /\ i < j
             /\ SameShape(R[i], R[j])
             /\ R[i].field_values # R[j].field_values
             /\ \E k \in 1..Len(patterns.list) :
                   /\ SameShape(patterns.list[k].pattern, R[i])
                   /\ patterns.list[k].count = 2

OrdersStatus == <<"orders", ":", "status">>

NumWithStatus(R, value) ==
    Cardinality({i \in 1..Len(R) : /\ R[i].collection = <<"orders">>
                                   /\ R[i].operation = <<"find">>
                                   /\ R[i].filter_fields = <<<<"status">>>>
                                   /\ R[i].plan_summary = <<"COLLSCAN">>
                                   /\ R[i].field_values = (<<"status">> :> value)})

\* C2: when the recognized records are the find on db.orders with COLLSCAN and
\* filter status "open" three times and status "closed" twice, the result is one
\* pattern (orders, find, [status], COLLSCAN) of count 5 and the distribution of
\* orders:status is exactly open -> 3, closed -> 2.
C2_ScenarioDistribution ==
    (/\ pc = "done"
     /\ Len(Recognized) = 5
     /\ NumWithStatus(Recognized, <<"open">>) = 3
     /\ NumWithStatus(Recognized, <<"closed">>) = 2) =>
        /\ Len(patterns.list) = 1
        /\ patterns.list[1].count = 5
        /\ patterns.list[1].pattern.collection = <<"orders">>
        /\ patterns.list[1].pattern.operation = <<"find">>
        /\ patterns.list[1].pattern.filter_fields = <<<<"status">>>>
        /\ patterns.list[1].pattern.plan_summary = <<"COLLSCAN">>
        /\ OrdersStatus \in DOMAIN field_distributions
        /\ field_distributions[OrdersStatus] = (<<"open">> :> 3 @@ <<"closed">> :> 2)

\* the field of a run over one field of brace text
TheField == input[1]

\* nesting depth after the first i lexemes of f
BraceDepth(f, i) ==
    Cardinality({j \in 1..i : f[j].t = "lb"}) - Cardinality({j \in 1..i : f[j].t = "rb"})

\* the first m lexemes of f are text and balanced groups
Balanced(f, m) == BraceDepth(f, m) = 0 /\ \A i \in 1..m : BraceDepth(f, i) >= 0

\* after the first m lexemes there are only stray closing braces and text
StrayTail(f, m) == \A i \in (m + 1)..Len(f) : f[i].t # "lb"

\* after the first m lexemes there is text and one group that is never closed
OpenTail(f, m) ==
    \A i \in (m + 1)..Len(f) :
        /\ BraceDepth(f, i) >= 0
        /\ (\E j \in (m + 1)..i : f[j].t = "lb") => BraceDepth(f, i) >= 1

\* where the top-level groups of the first m lexemes open
GroupStarts(f, m) == {a \in 1..m : f[a].t = "lb" /\ BraceDepth(f, a - 1) = 0}

\* where the group opened at a closes
GroupEnd(f, a) ==
    CHOOSE b \in a..Len(f) : BraceDepth(f, b) = 0 /\ \A j \in a..(b - 1) : BraceDepth(f, j) > 0

\* the top-level groups of the first m lexemes, left to right
TopLevelGroups(f, m) ==
    LET starts == GroupStarts(f, m)
        nth(k) == CHOOSE a \in starts : Cardinality({x \in starts : x <= a}) = k
    IN [k \in 1..Cardinality(starts) |-> SubSeq(f, nth(k), GroupEnd(f, nth(k)))]

\* C3: on a field of text and N balanced top-level groups, followed at most by stray
\* closing braces or by a group left open, the scan hands exactly the N groups to
\* the normalizer, left to right, each from its '{' to its matching '}'; nested
\* groups and the unmatched tail yield nothing.
C3_BalancedGroups ==
    (pc # "start" /\ Len(input) = 1) =>
        \A m \in 0..Len(TheField) :
            (Balanced(TheField, m) /\ (StrayTail(TheField, m) \/ OpenTail(TheField, m)))
                => candidates = TopLevelGroups(TheField, m)

\* two groups, one of them nesting another, were handed over and a tail with a brace was dropped
C3_Witness ==
    /\ pc # "start"
    /\ Len(input) = 1
    /\ Len(candidates) = 2
    /\ \E k \in 1..2 : Len(SelectSeq(candidates[k], LAMBDA x : x.t = "lb")) > 1
    /\ \E m \in 0..(Len(TheField) - 1) :
          /\ Balanced(TheField, m)
          /\ StrayTail(TheField, m) \/ OpenTail(TheField, m)
          /\ \E i \in (m + 1)..Len(TheField) : TheField[i].t \in {"lb", "rb"}
          /\ candidates = TopLevelGroups(TheField, m)

RECURSIVE IndependentGroups(_, _)
\* from lexeme i on: each '{' met while no candidate is open, up to its matching '}'
IndependentGroups(f, i) ==
    LET opens == {a \in i..Len(f) : f[a].t = "lb"}
    IN IF opens = {} THEN <<>>
       ELSE LET a == CHOOSE x \in opens : \A y \in opens : x <= y
                closes == {b \in a..Len(f) :
                              Cardinality({j \in a..b : f[j].t = "lb"})
                                = Cardinality({j \in a..b : f[j].t = "rb"})}
            IN IF closes = {} THEN <<>>
               ELSE LET b == CHOOSE x \in closes : \A y \in closes : x <= y
                    IN <<SubSeq(f, a, b)>> \o IndependentGroups(f, b + 1)

\* C4: every balanced group of a field is handed to the normalizer whatever
\* precedes it, an unmatched '}' met while no candidate is open included: a
\* candidate begins at every '{' met while none is open and is emitted at its
\* matching '}'.
C4_EveryGroupEmitted ==
    (pc # "start" /\ Len(input) = 1) => candidates = IndependentGroups(TheField, 1)

\* the document of the JSON text given to the normalizer, and its attr member
TheDoc == from_str(json_str)
TheAttr == IF TheDoc.some THEN Get(TheDoc.val, <<"attr">>) ELSE NoValue
AttrHas(key) == TheAttr.some /\ Get(TheAttr.val, key).some
AttrMember(key) == Get(TheAttr.val, key).val

\* C5: for a well-formed record with an attr object holding a command, a missing
\* ns, planSummary or durationMillis is no failure: a pattern is returned, with
\* empty collection, planSummary "unknown", absent durationMs respectively.
C5_OptionalFieldsTolerated ==
    (pc = "done" /\ TheAttr.some /\ TheAttr.val.t = "obj" /\ AttrHas(<<"command">>)) =>
        /\ parsed_pattern.some
        /\ ~AttrHas(<<"ns">>) => parsed_pattern.val.collection = <<>>
        /\ ~AttrHas(<<"planSummary">>) => parsed_pattern.val.plan_summary = <<"unknown">>
        /\ ~AttrHas(<<"durationMillis">>) => ~parsed_pattern.val.duration_ms.some

OriginatingHas(key) ==
    AttrHas(<<"originatingCommand">>) /\ Get(AttrMember(<<"originatingCommand">>), key).some
OriginatingMember(key) == Get(AttrMember(<<"originatingCommand">>), key).val

\* C6: for a getMore record with originatingCommand.filter, filterFields and
\* fieldValues are exactly those of originatingCommand.filter and sortFields those
\* of originatingCommand.sort; nothing of command.filter / command.sort survives.
C6_GetMoreOverwrites ==
    (/\ pc = "done"
     /\ parsed_pattern.some
     /\ parsed_pattern.val.operation = <<"getMore">>
     /\ OriginatingHas(<<"filter">>)) =>
        /\ parsed_pattern.val.filter_fields = extract_fields_from_object(OriginatingMember(<<"filter">>))
        /\ parsed_pattern.val.field_values
              = extract_field_values_from_object(OriginatingMember(<<"filter">>), <<>>)
        /\ parsed_pattern.val.sort_fields
              = IF OriginatingHas(<<"sort">>)
                THEN extract_fields_from_object(OriginatingMember(<<"sort">>))
                ELSE <<>>

\* position in Recognized of the first record with the identity of p
FirstInserted(R, p) == CHOOSE i \in 1..Len(R) : Display(R[i]) = Display(p) /\ \A j \in 1..(i - 1) : Display(R[j]) # Display(p)

\* C7: the returned list is in non-increasing order of count, and entries of equal
\* count are in the order in which their identities were first inserted.
C7_StableOrder ==
    (pc # "start" /\ patterns.ok) =>
        \A i, j \in 1..Len(patterns.list) :
            i < j =>
                /\ patterns.list[i].count >= patterns.list[j].count
                /\ patterns.list[i].count = patterns.list[j].count =>
                      FirstInserted(Recognized, patterns.list[i].pattern)
                         < FirstInserted(Recognized, patterns.list[j].pattern)

RECURSIVE SumCounts(_, _)
\* the sum of the counts of the entries of list at the positions of I
SumCounts(list, I) ==
    IF I = {} THEN 0
    ELSE LET i == CHOOSE x \in I : TRUE IN list[i].count + SumCounts(list, I \ {i})

Of(list, c) == {i \in 1..Len(list) : list[i].pattern.collection = c}

\* the tagged keys of collection c: plan keys for the patterns PlanCounted accepts
TaggedKeys(list, c, PlanCounted(_)) ==
    UNION {{<<"filter:">> \o f : f \in Range(list[i].pattern.filter_fields)}
           \cup {<<"sort:">> \o f : f \in Range(list[i].pattern.sort_fields)}
           \cup {<<"operation:">> \o list[i].pattern.operation}
           \cup (IF PlanCounted(list[i].pattern)
                 THEN {<<"plan:">> \o list[i].pattern.plan_summary} ELSE {}) : i \in Of(list, c)}

\* the patterns of collection c that count for the tagged key
Contributors(list, c, key, PlanCounted(_)) ==
    {i \in Of(list, c) :
        \/ \E f \in Range(list[i].pattern.filter_fields) : key = <<"filter:">> \o f
        \/ \E f \in Range(list[i].pattern.sort_fields) : key = <<"sort:">> \o f
        \/ key = <<"operation:">> \o list[i].pattern.operation
        \/ PlanCounted(list[i].pattern) /\ key = <<"plan:">> \o list[i].pattern.plan_summary}

\* collection_analysis is the table of summed counts, plan keys as PlanCounted says
IsCollectionTable(list, PlanCounted(_)) ==
    /\ DOMAIN collection_analysis = {list[i].pattern.collection : i \in 1..Len(list)}
    /\ \A c \in DOMAIN collection_analysis :
          /\ DOMAIN collection_analysis[c] = TaggedKeys(list, c, PlanCounted)
          /\ \A key \in DOMAIN collection_analysis[c] :
                collection_analysis[c][key] = SumCounts(list, Contributors(list, c, key, PlanCounted))

AnyPlan(p) == TRUE
KnownPlan(p) == p.plan_summary # <<>> /\ p.plan_summary # <<"unknown">>

\* C8 as stated: one entry per collection; each tagged key filter:<f>, sort:<s>,
\* operation:<op>, plan:<summary> holds the summed counts of the collection's
\* patterns that have it; every pattern counts for its operation and its plan key.
C8_EveryPlanCounted ==
    pc \in {"collections", "done"} => IsCollectionTable(patterns.list, AnyPlan)

\* C8 amended: as stated, except that a pattern counts for its plan:<planSummary>
\* key only when its planSummary is neither empty nor "unknown".
C8_KnownPlansCounted ==
    pc \in {"collections", "done"} => IsCollectionTable(patterns.list, KnownPlan)

\* two patterns of one collection share a filter key that holds the sum of their
\* counts, a count above 1 among them, and one of them has the plan "unknown"
C8_Witness ==
    /\ pc = "collections"
    /\ \E i, j \in 1..Len(patterns.list) :
          /\ i < j
          /\ patterns.list[i].pattern.collection = patterns.list[j].pattern.collection
          /\ patterns.list[i].count > 1
          /\ patterns.list[j].pattern.plan_summary = <<"unknown">>
          /\ \E f \in Range(patterns.list[i].pattern.filter_fields) :
                /\ f \in Range(patterns.list[j].pattern.filter_fields)
                /\ collection_analysis[patterns.list[i].pattern.collection][<<"filter:">> \o f]
                      = patterns.list[i].count + patterns.list[j].count

\* C9: the call fails with "no patterns found" exactly when no candidate of the
\* whole input was recognized; a success never carries an empty list, and
\* unrecognized candidates never fail a run in which one was recognized.
C9_EmptyResult ==
    pc # "start" =>
        /\ ~patterns.ok <=> (\A i \in 1..Len(candidates) : ~parse_query_pattern(candidates[i]).some)
        /\ patterns.ok => patterns.list # <<>>
        /\ patterns.ok <=> pc # "failed"

\* a run with a malformed and an unrecognized candidate and a recognized one succeeded
C9_Witness ==
    /\ pc = "found"
    /\ \E i \in 1..Len(candidates) : ~from_str(candidates[i]).some
    /\ \E i \in 1..Len(candidates) :
          from_str(candidates[i]).some /\ ~parse_query_pattern(candidates[i]).some
    /\ \E i \in 1..Len(candidates) : parse_query_pattern(candidates[i]).some
    /\ patterns.list # <<>>

RECURSIVE Segments(_, _)
\* the segments of a dotted path, cur being the segment read so far
Segments(path, cur) ==
    IF path = <<>> THEN <<cur>>
    ELSE IF Head(path) = "." THEN <<cur>> \o Segments(Tail(path), <<>>)
    ELSE Segments(Tail(path), Append(cur, Head(path)))

RECURSIVE LeadsToValue(_, _)
\* following the keys through nested objects of doc ends at a sampled (non-object) value
LeadsToValue(doc, keys) ==
    /\ doc.t = "obj"
    /\ Head(keys) \in DOMAIN doc.v
    /\ IF Len(keys) = 1 THEN doc.v[Head(keys)].t \in {"str", "num", "bool", "arr"}
       ELSE LeadsToValue(doc.v[Head(keys)], Tail(keys))

RECURSIVE Nesting(_)
\* how many objects deep the document nests
Nesting(doc) ==
    IF doc.t # "obj" THEN 0
    ELSE IF DOMAIN doc.v = {} THEN 1
    ELSE 1 + (CHOOSE n \in {Nesting(doc.v[k]) : k \in DOMAIN doc.v} :
                 \A o \in {Nesting(doc.v[k]) : k \in DOMAIN doc.v} : o <= n)

\* C10: every key of the sampled mapping is a dotted path of at most 3 keys, so
\* reached through at most 2 enclosing objects, that leads to a value of the
\* filter; deeper values contribute nothing, and no key of a path starts with '$'
\* or is '_id'.
C10_DepthBound ==
    pc = "done" =>
        \A path \in DOMAIN field_values :
            LET keys == Segments(path, <<>>)
            IN /\ Len(keys) <= MaxDepth
               /\ \A i \in 1..Len(keys) : keys[i] # <<>> /\ keys[i][1] # "$" /\ keys[i] # <<"_id">>
               /\ LeadsToValue(filter_doc, keys)

\* a filter nesting as deep as the bound allows was sampled down to a path of 3 keys
C10_Witness ==
    /\ pc = "done"
    /\ Nesting(filter_doc) >= 5
    /\ \E path \in DOMAIN field_values : Len(Segments(path, <<>>)) = 3

\* the components that make up a pattern's identity
Shape(p) == <<p.collection, p.operation, p.filter_fields, p.sort_fields, p.plan_summary>>

\* C11: identity is exact: the aggregation has one entry per distinct shape
\* (collection, operation, filterFields, sortFields, planSummary) among the
\* recognized records, and an entry counts only the records of its own shape, so
\* records that differ in one of these components (planSummary "unknown" versus
\* empty, or field lists split differently) never share an entry and a count.
C11_ExactIdentity ==
    pc # "start" =>
        LET R == Recognized
        IN /\ Cardinality(DOMAIN pattern_counts) = Cardinality({Shape(R[i]) : i \in 1..Len(R)})
           /\ \A k \in DOMAIN pattern_counts :
                 pattern_counts[k].count =
                     Cardinality({i \in 1..Len(R) : SameShape(R[i], pattern_counts[k].pattern)})

====
